---------------------------- MODULE Spec2Model ----------------------------
(***************************************************************************)
(* A model of ecs::Registry (src/ecs.hpp): the entity slot allocator, the  *)
(* component type registry and storage, the per-entity signatures and the  *)
(* view cache.  Every public method is an operator from a registry value   *)
(* (and the call's arguments) to an outcome: the registry after the call,  *)
(* the value returned, and whether the call returned or threw.  A call     *)
(* that throws half way keeps the writes it made before the throw.         *)
(***************************************************************************)
EXTENDS Integers, FiniteSets, Sequences, TLC

VARIABLES reg, last, live, fresh, shadow, calls, view_types, destroyed, objs, heap

vars == <<reg, last, live, fresh, shadow, calls, view_types, destroyed, objs, heap>>

(***************************************************************************)
(* Sizes.  The two capacities are the compile-time constants of ecs.hpp,   *)
(* scaled down.  MaxCalls is the length of the call sequences explored     *)
(* when all the methods are called; it is what keeps the counters the code *)
(* lets grow for ever (m_view_count, m_components_assigned) finite.        *)
(***************************************************************************)
MAX_ENTITY_COUNT == 4

MAX_COMPONENT_COUNT == 2

NumTypes == 3

MaxValue == 1

MaxCalls == 5

EntityIds == 0 .. (MAX_ENTITY_COUNT - 1)

Bits == 0 .. (MAX_COMPONENT_COUNT - 1)

\* typeid(T).hash_code() of the component types in use; 0 marks an unbound bit
Types == 1 .. NumTypes

\* component data; 0 is also the value-initialised cell of a fresh ComponentArray
Values == 0 .. MaxValue

\* the component types in use where two registries are (Position and Velocity),
\* and the component data stored there
PairTypes == {1, 2}

PairValues == {0, 1}

\* an empty std::unique_ptr<IComponentArray>
Null == [type |-> 0, m_component_seq |-> << >>]

U16(x) == x % 65536

\* uint32_t arithmetic.  TLC's integers end at 2^31 - 1, so a value that wrapped
\* below zero is held as that many below TLC's largest integer instead of below
\* 2^32: the code only compares such a value with container sizes and with 0
U32(x) == IF x < 0 THEN 2147483647 + (x + 1) ELSE x

\* ++ of a uint32_t: the value that stands for 2^32 - 1 wraps to 0
Inc32(x) == IF x = 2147483647 THEN 0 ELSE x + 1

(***************************************************************************)
(* struct Entity and the registry as constructed by Registry().            *)
(***************************************************************************)
Entity == [m_id_or_next_empty |-> 0,
           m_next_valid_entity |-> U16(MAX_ENTITY_COUNT),
           m_prev_valid_entity |-> 0]

Registry ==
    [m_first_available_entity_slot |-> 0,
     m_view_count |-> 0,
     m_entities |-> [i \in EntityIds |-> [Entity EXCEPT !.m_id_or_next_empty = i + 1]],
     m_entity_signatures |-> [i \in EntityIds |-> {}],
     m_view_entities |-> << >>,
     m_view_signatures |-> << >>,
     m_bit_to_component |-> [b \in Bits |-> 0],
     m_components_assigned |-> [b \in Bits |-> 0],
     m_component_arrays |-> [b \in Bits |-> Null]]

\* a fresh ComponentArray<T>: MAX_ENTITY_COUNT value-initialised cells
ComponentArray(T) == [type |-> T, m_component_seq |-> [i \in EntityIds |-> 0]]

(***************************************************************************)
(* Outcomes of a call.                                                     *)
(***************************************************************************)
\* ret is the value returned; Void, below every id, handle and datum, when the
\* call returns none or throws
Void == 0 - 1

Return(r, v) == [reg |-> r, ret |-> v, status |-> "ok"]

Throw(r, what) == [reg |-> r, ret |-> Void, status |-> what]

\* std::array::at and std::vector::at throw std::out_of_range past the end
InRange(i) == i >= 0 /\ i < MAX_ENTITY_COUNT

(***************************************************************************)
(* Entity allocator.                                                       *)
(***************************************************************************)
\* create_entity without line 98: the free-list head is not advanced
create_entity_NoPop(r) ==
    LET temp == r.m_first_available_entity_slot IN
    IF ~InRange(temp) THEN Throw(r, "out_of_range")
    ELSE
      LET r2 == IF temp > 0
                THEN [r EXCEPT !.m_entities[temp - 1].m_next_valid_entity = U16(temp)]
                ELSE r
      IN Return(r2, temp)

create_entity(r) ==
    LET temp == r.m_first_available_entity_slot IN
    IF ~InRange(temp) THEN Throw(r, "out_of_range")
    ELSE
      LET new_entity == r.m_entities[temp]
          r1 == [r EXCEPT !.m_first_available_entity_slot = new_entity.m_id_or_next_empty]
          \* new_entity is a copy of the slot: only the write to slot temp - 1 persists
          r2 == IF temp > 0
                THEN [r1 EXCEPT !.m_entities[temp - 1].m_next_valid_entity = U16(temp)]
                ELSE r1
      IN Return(r2, temp)

\* the do-while of destroy_entity (lines 120-125): the index i it ends with,
\* the first one >= entity on the free list; -1 when m_entities.at(i) throws
RECURSIVE FreeScan(_, _, _)
FreeScan(r, i, entity) ==
    IF ~InRange(i) THEN -1
    ELSE LET nxt == r.m_entities[i].m_id_or_next_empty IN
         IF nxt < entity THEN FreeScan(r, nxt, entity) ELSE nxt

\* lines 130-133 of destroy_entity: relink the neighbours, reset the signature
destroy_relink(r1, entity) ==
    IF ~InRange(U32(entity + 1)) THEN Throw(r1, "out_of_range")
    ELSE
      LET r2 == [r1 EXCEPT !.m_entities[entity + 1].m_prev_valid_entity =
                               r1.m_entities[entity].m_prev_valid_entity]
      IN
      IF ~InRange(U32(entity - 1)) THEN Throw(r2, "out_of_range")
      ELSE
        LET r3 == [r2 EXCEPT !.m_entities[entity - 1].m_next_valid_entity =
                                 r2.m_entities[entity].m_next_valid_entity]
        IN Return([r3 EXCEPT !.m_entity_signatures[entity] = {}], Void)

destroy_entity(r, entity) ==
    IF ~InRange(entity) THEN Throw(r, "out_of_range")
    ELSE
      LET first == r.m_first_available_entity_slot IN
      IF entity < first
      THEN destroy_relink([r EXCEPT !.m_entities[entity].m_id_or_next_empty = first,
                                    !.m_first_available_entity_slot = entity],
                          entity)
      ELSE
        LET i == FreeScan(r, first, entity) IN
        IF ~InRange(i) THEN Throw(r, "out_of_range")
        \* last_empty_slot_before is a copy: its write (line 128) does not persist
        ELSE destroy_relink([r EXCEPT !.m_entities[entity].m_id_or_next_empty =
                                          r.m_entities[i].m_id_or_next_empty],
                            entity)

(***************************************************************************)
(* Component type registry.                                                *)
(***************************************************************************)
has_component_bit(r, T) == \E bit \in Bits : r.m_bit_to_component[bit] = T

\* the first bit bound to T; MAX_COMPONENT_COUNT stands for the throw of line 286
get_component_bit(r, T) ==
    IF has_component_bit(r, T)
    THEN CHOOSE bit \in Bits :
            /\ r.m_bit_to_component[bit] = T
            /\ \A b \in Bits : r.m_bit_to_component[b] = T => bit <= b
    ELSE MAX_COMPONENT_COUNT

\* the first unbound bit, bound to T with a fresh array; m_bit_to_component.at(bit)
\* throws when every bit is bound
create_component_bit(r, T) ==
    IF \A b \in Bits : r.m_bit_to_component[b] # 0 THEN Throw(r, "out_of_range")
    ELSE
      LET bit == CHOOSE b \in Bits :
                    /\ r.m_bit_to_component[b] = 0
                    /\ \A c \in Bits : r.m_bit_to_component[c] = 0 => b <= c
      IN Return([r EXCEPT !.m_bit_to_component[bit] = T,
                          !.m_component_arrays[bit] = ComponentArray(T)],
                bit)

\* set_component_bits<Ts...>: the bits of Ts, or a throw when one is unbound
set_component_bits(r, Ts) ==
    IF \E T \in Ts : ~has_component_bit(r, T)
    THEN Throw(r, "runtime_error")
    ELSE Return(r, {get_component_bit(r, T) : T \in Ts})

(***************************************************************************)
(* View cache.                                                             *)
(***************************************************************************)
Superset(entity_signature, view_signature) ==
    (entity_signature \cap view_signature) = view_signature

\* on_entity_signature_change without its else branch: nothing is ever erased
on_entity_signature_change_InsertOnly(r, entity) ==
    LET entity_signature == r.m_entity_signatures[entity] IN
    [r EXCEPT !.m_view_entities =
        [view \in DOMAIN r.m_view_entities |->
            IF Superset(entity_signature, r.m_view_signatures[view])
            THEN r.m_view_entities[view] \cup {entity}
            ELSE r.m_view_entities[view]]]

on_entity_signature_change(r, entity) ==
    LET entity_signature == r.m_entity_signatures[entity] IN
    [r EXCEPT !.m_view_entities =
        [view \in DOMAIN r.m_view_entities |->
            IF Superset(entity_signature, r.m_view_signatures[view])
            THEN r.m_view_entities[view] \cup {entity}
            ELSE r.m_view_entities[view] \ {entity}]]

\* the loop of create_view (lines 152-155): the entities it visits, in order,
\* from index 0 along m_next_valid_entity until an index >= MAX_ENTITY_COUNT
RECURSIVE LiveList(_, _, _)
LiveList(r, entity, fuel) ==
    IF ~(entity < MAX_ENTITY_COUNT) \/ fuel = 0 THEN << >>
    ELSE <<entity>> \o LiveList(r, r.m_entities[entity].m_next_valid_entity, fuel - 1)

Visited(r) ==
    LET seq == LiveList(r, 0, MAX_ENTITY_COUNT + 1) IN
    {seq[k] : k \in 1 .. Len(seq)}

\* create_view without the search of lines 145-147: every call registers a view
create_view_NoIntern(r, Ts) ==
    LET bits == set_component_bits(r, Ts) IN
    IF bits.status # "ok" THEN bits
    ELSE
      LET signature == bits.ret
          members == {entity \in Visited(r) :
                         Superset(r.m_entity_signatures[entity], signature)}
          r1 == [r EXCEPT
                   !.m_view_signatures = @ @@ (r.m_view_count :> signature),
                   !.m_view_entities = @ @@ (r.m_view_count :> {})]
      IN Return([r1 EXCEPT
                   !.m_view_entities[r.m_view_count] = @ \cup members,
                   !.m_view_count = U32(@ + 1)],
                r.m_view_count)

\* create_view registering a new view under the lowest handle that is not in use
\* instead of m_view_count
create_view_ReuseHandle(r, Ts) ==
    LET bits == set_component_bits(r, Ts) IN
    IF bits.status # "ok" THEN bits
    ELSE
      LET signature == bits.ret
          found == {view \in DOMAIN r.m_view_signatures :
                        r.m_view_signatures[view] = signature}
      IN
      IF found # {} THEN Return(r, CHOOSE view \in found : TRUE)
      ELSE
        LET handle == CHOOSE h \in 0 .. r.m_view_count :
                          /\ h \notin DOMAIN r.m_view_signatures
                          /\ \A g \in 0 .. r.m_view_count :
                                g \notin DOMAIN r.m_view_signatures => h <= g
            members == {entity \in Visited(r) :
                           Superset(r.m_entity_signatures[entity], signature)}
            r1 == [r EXCEPT
                     !.m_view_signatures = @ @@ (handle :> signature),
                     !.m_view_entities = @ @@ (handle :> {})]
        IN Return([r1 EXCEPT
                     !.m_view_entities[handle] = @ \cup members,
                     !.m_view_count = U32(@ + 1)],
                  handle)

create_view(r, Ts) ==
    LET bits == set_component_bits(r, Ts) IN
    IF bits.status # "ok" THEN bits
    ELSE
      LET signature == bits.ret
          found == {view \in DOMAIN r.m_view_signatures :
                        r.m_view_signatures[view] = signature}
      IN
      IF found # {} THEN Return(r, CHOOSE view \in found : TRUE)
      ELSE
        LET members == {entity \in Visited(r) :
                           Superset(r.m_entity_signatures[entity], signature)}
            \* unordered_map::insert keeps an entry that is already there
            r1 == [r EXCEPT
                     !.m_view_signatures = @ @@ (r.m_view_count :> signature),
                     !.m_view_entities = @ @@ (r.m_view_count :> {})]
        IN Return([r1 EXCEPT
                     !.m_view_entities[r.m_view_count] = @ \cup members,
                     !.m_view_count = U32(@ + 1)],
                  r.m_view_count)

destroy_view(r, view) ==
    IF view \notin DOMAIN r.m_view_signatures THEN Throw(r, "runtime_error")
    ELSE Return([r EXCEPT
                   !.m_view_signatures =
                       [v \in DOMAIN r.m_view_signatures \ {view} |-> r.m_view_signatures[v]],
                   !.m_view_entities =
                       [v \in DOMAIN r.m_view_entities \ {view} |-> r.m_view_entities[v]]],
                Void)

get_entities(r, view) ==
    IF view \notin DOMAIN r.m_view_entities THEN Throw(r, "out_of_range")
    ELSE Return(r, r.m_view_entities[view])

(***************************************************************************)
(* Component storage.                                                      *)
(***************************************************************************)
\* lines 185-189 of assign, once the bit index is known
assign_store(r, index, T, entity, data) ==
    LET r1 == [r EXCEPT !.m_components_assigned[index] = Inc32(@)]
        raw_ptr == r1.m_component_arrays[index]
    IN
    \* a null or wrongly typed array behind the static_cast is undefined behaviour
    IF raw_ptr = Null \/ raw_ptr.type # T THEN [reg |-> r1, ret |-> Void, status |-> "ub"]
    ELSE IF ~InRange(entity) THEN Throw(r1, "out_of_range")
    ELSE
      LET r2 == [r1 EXCEPT !.m_component_arrays[index].m_component_seq[entity] = data,
                           !.m_entity_signatures[entity] = @ \cup {index}]
      IN Return(on_entity_signature_change(r2, entity), Void)

assign(r, T, entity, data) ==
    IF has_component_bit(r, T)
    THEN assign_store(r, get_component_bit(r, T), T, entity, data)
    ELSE LET made == create_component_bit(r, T) IN
         IF made.status # "ok" THEN made
         ELSE assign_store(made.reg, made.ret, T, entity, data)

\* remove releasing the bit and its array whatever the reference count is
remove_ReleaseAlways(r, T, entity) ==
    IF ~has_component_bit(r, T) THEN Throw(r, "runtime_error")
    ELSE
      LET index == get_component_bit(r, T) IN
      IF ~InRange(entity) THEN Throw(r, "out_of_range")
      ELSE IF index \notin r.m_entity_signatures[entity] THEN Throw(r, "runtime_error")
      ELSE
        LET r2 == [r EXCEPT !.m_components_assigned[index] = U32(@ - 1),
                            !.m_bit_to_component[index] = 0,
                            !.m_component_arrays[index] = Null]
            r3 == [r2 EXCEPT !.m_entity_signatures[entity] = @ \ {index}]
        IN Return(on_entity_signature_change(r3, entity), Void)

\* remove decrementing the reference count before the check of line 203
remove_DecrementFirst(r, T, entity) ==
    IF ~has_component_bit(r, T) THEN Throw(r, "runtime_error")
    ELSE
      LET index == get_component_bit(r, T)
          count == U32(r.m_components_assigned[index] - 1)
          r1 == [r EXCEPT !.m_components_assigned[index] = count]
      IN
      IF ~InRange(entity) THEN Throw(r, "out_of_range")
      ELSE IF index \notin r.m_entity_signatures[entity] THEN Throw(r1, "runtime_error")
      ELSE
        LET r2 == IF count = 0
                  THEN [r1 EXCEPT !.m_bit_to_component[index] = 0,
                                  !.m_component_arrays[index] = Null]
                  ELSE r1
            r3 == [r2 EXCEPT !.m_entity_signatures[entity] = @ \ {index}]
        IN Return(on_entity_signature_change(r3, entity), Void)

remove(r, T, entity) ==
    IF ~has_component_bit(r, T) THEN Throw(r, "runtime_error")
    ELSE
      LET index == get_component_bit(r, T) IN
      IF ~InRange(entity) THEN Throw(r, "out_of_range")
      ELSE IF index \notin r.m_entity_signatures[entity] THEN Throw(r, "runtime_error")
      ELSE
        LET count == U32(r.m_components_assigned[index] - 1)
            r1 == [r EXCEPT !.m_components_assigned[index] = count]
            r2 == IF count = 0
                  THEN [r1 EXCEPT !.m_bit_to_component[index] = 0,
                                  !.m_component_arrays[index] = Null]
                  ELSE r1
            r3 == [r2 EXCEPT !.m_entity_signatures[entity] = @ \ {index}]
        IN Return(on_entity_signature_change(r3, entity), Void)

\* get<T>(entity): the cell's value stands for the reference returned
get(r, T, entity) ==
    IF ~has_component_bit(r, T) THEN Throw(r, "runtime_error")
    ELSE
      LET raw_ptr == r.m_component_arrays[get_component_bit(r, T)] IN
      IF raw_ptr = Null \/ raw_ptr.type # T THEN [reg |-> r, ret |-> Void, status |-> "ub"]
      ELSE IF ~InRange(entity) THEN Throw(r, "out_of_range")
      ELSE Return(r, raw_ptr.m_component_seq[entity])

\* a write through the reference get<T>(entity) returned (example.cpp, pos.x += ...)
get_write(r, T, entity, data) ==
    LET got == get(r, T, entity) IN
    IF got.status # "ok" THEN got
    ELSE Return([r EXCEPT
                   !.m_component_arrays[get_component_bit(r, T)].m_component_seq[entity] = data],
                data)

(***************************************************************************)
(* Registry objects.  A Registry owns its component arrays through         *)
(* std::unique_ptr.  Where more than one Registry exists, an object holds  *)
(* in m_component_arrays the addresses of its arrays and heap holds the    *)
(* arrays; a method works on the registry value of the object it is called *)
(* on, each address replaced by the array at it, and what it wrote goes    *)
(* back to the heap.                                                       *)
(***************************************************************************)
\* heap addresses, 0 being nullptr: two objects and the temporary of a copy
\* assignment own at most MAX_COMPONENT_COUNT arrays each
Addrs == 1 .. (3 * MAX_COMPONENT_COUNT)

\* the members as their default initialisers leave them, before the body of a
\* constructor runs
DefaultMembers ==
    [m_first_available_entity_slot |-> 0,
     m_view_count |-> 0,
     m_entities |-> [i \in EntityIds |-> Entity],
     m_entity_signatures |-> [i \in EntityIds |-> {}],
     m_view_entities |-> << >>,
     m_view_signatures |-> << >>,
     m_bit_to_component |-> [b \in Bits |-> 0],
     m_components_assigned |-> [b \in Bits |-> 0],
     m_component_arrays |-> [b \in Bits |-> 0]]

\* the object Registry() constructs
NewRegistry ==
    [DefaultMembers EXCEPT !.m_entities =
        [i \in EntityIds |-> [Entity EXCEPT !.m_id_or_next_empty = i + 1]]]

\* the registry value of an object: what its methods read through the pointers
Deref(obj, h) ==
    [obj EXCEPT !.m_component_arrays =
        [b \in Bits |-> IF obj.m_component_arrays[b] = 0 THEN Null
                        ELSE h[obj.m_component_arrays[b]]]]

\* operator new: the lowest free address
Alloc(h) == CHOOSE a \in Addrs : h[a] = Null /\ \A c \in Addrs : h[c] = Null => a <= c

\* the object and the heap once a method called on obj has left the registry
\* value r: an array that reset() released is freed, the array make_unique
\* made (one at most in a call) is at a new address, and the cells written are
\* written to the array at the address the object holds
Store(obj, r, h) ==
    LET freed == {obj.m_component_arrays[b] :
                     b \in {c \in Bits : /\ obj.m_component_arrays[c] # 0
                                         /\ r.m_component_arrays[c] = Null}}
        h1 == [a \in Addrs |-> IF a \in freed THEN Null ELSE h[a]]
        ptrs == [b \in Bits |->
                    IF r.m_component_arrays[b] = Null THEN 0
                    ELSE IF obj.m_component_arrays[b] # 0 THEN obj.m_component_arrays[b]
                    ELSE Alloc(h1)]
    IN [obj |-> [r EXCEPT !.m_component_arrays = ptrs],
        heap |-> [a \in Addrs |->
                     IF \E b \in Bits : ptrs[b] = a
                     THEN r.m_component_arrays[CHOOSE b \in Bits : ptrs[b] = a]
                     ELSE h1[a]]]

\* ComponentArray<T>::copy: a new array with a copy of the cells
copy(array) == [type |-> array.type, m_component_seq |-> array.m_component_seq]

\* the loop of the copy constructor taking the address other holds instead of
\* the address of a copy: both objects point to one array
copy_arrays_Shared(this, other, h, i) ==
    [obj |-> [this EXCEPT !.m_component_arrays = other.m_component_arrays],
     heap |-> h]

\* the loop of the copy constructor (lines 64-68), from bit i on
RECURSIVE copy_arrays(_, _, _, _)
copy_arrays(this, other, h, i) ==
    IF i >= MAX_COMPONENT_COUNT THEN [obj |-> this, heap |-> h]
    ELSE
      LET raw_ptr == other.m_component_arrays[i] IN
      IF raw_ptr # 0
      THEN LET a == Alloc(h) IN
           copy_arrays([this EXCEPT !.m_component_arrays[i] = a], other,
                       [h EXCEPT ![a] = copy(h[raw_ptr])], i + 1)
      ELSE copy_arrays(this, other, h, i + 1)

\* Registry(const Registry& other): seven members are copied, m_components_assigned
\* keeps its initialiser, and each array of other is cloned
Registry_copy(other, h) ==
    copy_arrays([DefaultMembers EXCEPT
                   !.m_entities = other.m_entities,
                   !.m_first_available_entity_slot = other.m_first_available_entity_slot,
                   !.m_view_count = other.m_view_count,
                   !.m_entity_signatures = other.m_entity_signatures,
                   !.m_view_entities = other.m_view_entities,
                   !.m_view_signatures = other.m_view_signatures,
                   !.m_bit_to_component = other.m_bit_to_component],
                other, h, 0)

\* ~Registry(): the unique_ptrs delete their arrays
Registry_destroy(obj, h) ==
    [a \in Addrs |-> IF \E b \in Bits : obj.m_component_arrays[b] = a THEN Null ELSE h[a]]

\* operator=(Registry&& other): seven members are swapped; m_components_assigned
\* and m_component_arrays stay where they are
move_assign(this, other) ==
    [this |-> [this EXCEPT
                 !.m_entities = other.m_entities,
                 !.m_first_available_entity_slot = other.m_first_available_entity_slot,
                 !.m_view_count = other.m_view_count,
                 !.m_entity_signatures = other.m_entity_signatures,
                 !.m_view_entities = other.m_view_entities,
                 !.m_view_signatures = other.m_view_signatures,
                 !.m_bit_to_component = other.m_bit_to_component],
     other |-> [other EXCEPT
                 !.m_entities = this.m_entities,
                 !.m_first_available_entity_slot = this.m_first_available_entity_slot,
                 !.m_view_count = this.m_view_count,
                 !.m_entity_signatures = this.m_entity_signatures,
                 !.m_view_entities = this.m_view_entities,
                 !.m_view_signatures = this.m_view_signatures,
                 !.m_bit_to_component = this.m_bit_to_component]]

\* operator=(const Registry& other): *this = Registry(other), the move assignment
\* from a temporary copy, which is then destroyed
copy_assign(this, other, h) ==
    LET temporary == Registry_copy(other, h)
        swapped == move_assign(this, temporary.obj)
    IN [obj |-> swapped.this, heap |-> Registry_destroy(swapped.other, temporary.heap)]

\* Registry(Registry&& other) { *this = other; }: other is an lvalue in the body,
\* so this is the copy assignment to an object that holds its initialisers
Registry_move(other, h) == copy_assign(DefaultMembers, other, h)

(***************************************************************************)
(* The calling code: one action per public method, called with every       *)
(* argument the bounds allow.  last records the call just made, its        *)
(* outcome and the view handles that were registered when it was made.     *)
(* live, fresh, shadow and calls are history variables the claims are      *)
(* stated with; no method reads them.                                      *)
(*   live    the ids create_entity returned that were not since passed to  *)
(*           destroy_entity                                                *)
(*   fresh   the number of create_entity calls that returned, while no     *)
(*           destroy_entity call was made; -1 from the first one on        *)
(*   shadow  shadow[e][T] is the value the caller last stored for e and T, *)
(*           by assign<T>(e, v) or through a reference get<T>(e) gave;     *)
(*           Void before that and once T was removed from e or e was       *)
(*           passed to destroy_entity                                      *)
(*   calls   the number of calls made so far                               *)
(*   view_types  view_types[h] is the set of component types the           *)
(*           registered view h was created over                            *)
(*   destroyed   the handles destroy_view returned for                     *)
(* Where two registries are in use, objs[x] is the registry named x: its   *)
(* members (obj), the ids create_entity returned for it, or for the        *)
(* registry it took its entities from, that were not since passed to its   *)
(* destroy_entity (live), and the constructor or assignment that gave it   *)
(* its members (built).                                                    *)
(***************************************************************************)
NoTypes == {}

\* the two registry objects of example.cpp
Names == {"registry", "second_registry"}

Call(op, entity, T, data, view, Ts, out) ==
    [op |-> op, entity |-> entity, type |-> T, data |-> data, view |-> view,
     types |-> Ts, ret |-> out.ret, status |-> out.status,
     views_before |-> DOMAIN reg.m_view_signatures]

Init ==
    /\ reg = Registry
    /\ last = Call("Registry", Void, 0, 0, Void, NoTypes, Return(Registry, Void))
    /\ live = {}
    /\ fresh = 0
    /\ shadow = [e \in EntityIds |-> [T \in Types |-> Void]]
    /\ calls = 0
    /\ view_types = << >>
    /\ destroyed = {}
    /\ objs = << >>
    /\ heap = << >>

CreateEntity ==
    LET out == create_entity(reg) IN
    /\ reg' = out.reg
    /\ last' = Call("create_entity", Void, 0, 0, Void, NoTypes, out)
    /\ live' = IF out.status = "ok" THEN live \cup {out.ret} ELSE live
    /\ fresh' = IF out.status = "ok" /\ fresh >= 0 THEN fresh + 1 ELSE fresh
    /\ UNCHANGED <<shadow, view_types, destroyed, objs, heap>>

DestroyEntity ==
    \E entity \in live :
      LET out == destroy_entity(reg, entity) IN
      /\ reg' = out.reg
      /\ last' = Call("destroy_entity", entity, 0, 0, Void, NoTypes, out)
      /\ live' = live \ {entity}
      /\ fresh' = -1
      /\ shadow' = [shadow EXCEPT ![entity] = [T \in Types |-> Void]]
      /\ UNCHANGED <<view_types, destroyed, objs, heap>>

AssignOf(Ts, Data) ==
    \E entity \in live, T \in Ts, data \in Data :
      LET out == assign(reg, T, entity, data) IN
      /\ reg' = out.reg
      /\ last' = Call("assign", entity, T, data, Void, NoTypes, out)
      /\ shadow' = IF out.status = "ok" THEN [shadow EXCEPT ![entity][T] = data]
                   ELSE shadow
      /\ UNCHANGED <<live, fresh, view_types, destroyed, objs, heap>>

Assign == AssignOf(Types, Values)

Remove ==
    \E entity \in live, T \in Types :
      LET out == remove(reg, T, entity) IN
      /\ reg' = out.reg
      /\ last' = Call("remove", entity, T, 0, Void, NoTypes, out)
      /\ shadow' = IF out.status = "ok" THEN [shadow EXCEPT ![entity][T] = Void]
                   ELSE shadow
      /\ UNCHANGED <<live, fresh, view_types, destroyed, objs, heap>>

Get ==
    \E entity \in live, T \in Types :
      LET out == get(reg, T, entity) IN
      /\ reg' = out.reg
      /\ last' = Call("get", entity, T, 0, Void, NoTypes, out)
      /\ UNCHANGED <<live, fresh, shadow, view_types, destroyed, objs, heap>>

GetWrite ==
    \E entity \in live, T \in Types, data \in Values :
      LET out == get_write(reg, T, entity, data) IN
      /\ out.status = "ok"
      /\ reg' = out.reg
      /\ last' = Call("get_write", entity, T, data, Void, NoTypes, out)
      /\ shadow' = IF shadow[entity][T] # Void THEN [shadow EXCEPT ![entity][T] = data]
                   ELSE shadow
      /\ UNCHANGED <<live, fresh, view_types, destroyed, objs, heap>>

CreateViewOf(TypeSets) ==
    \E Ts \in TypeSets :
      LET out == create_view(reg, Ts) IN
      /\ reg' = out.reg
      /\ last' = Call("create_view", Void, 0, 0, Void, Ts, out)
      /\ view_types' = IF out.status = "ok" /\ out.ret \notin DOMAIN reg.m_view_signatures
                       THEN view_types @@ (out.ret :> Ts)
                       ELSE view_types
      /\ UNCHANGED <<live, fresh, shadow, destroyed, objs, heap>>

CreateView == CreateViewOf(SUBSET Types \ {{}})

DestroyView ==
    \E view \in 0 .. reg.m_view_count :
      LET out == destroy_view(reg, view) IN
      /\ reg' = out.reg
      /\ last' = Call("destroy_view", Void, 0, 0, view, NoTypes, out)
      /\ view_types' = IF out.status = "ok"
                       THEN [v \in DOMAIN view_types \ {view} |-> view_types[v]]
                       ELSE view_types
      /\ destroyed' = IF out.status = "ok" THEN destroyed \cup {view} ELSE destroyed
      /\ UNCHANGED <<live, fresh, shadow, objs, heap>>

GetEntities ==
    \E view \in 0 .. reg.m_view_count :
      LET out == get_entities(reg, view) IN
      /\ reg' = out.reg
      /\ last' = Call("get_entities", Void, 0, 0, view, NoTypes,
                      [out EXCEPT !.ret = Void])
      /\ UNCHANGED <<live, fresh, shadow, view_types, destroyed, objs, heap>>

\* one more call, while the sequence is shorter than MaxCalls
Counted(call) ==
    /\ calls < MaxCalls
    /\ calls' = calls + 1
    /\ call

\* every sequence of at most MaxCalls calls on a default-constructed registry
Next ==
    \/ Counted(CreateEntity)
    \/ Counted(DestroyEntity)
    \/ Counted(Assign)
    \/ Counted(Remove)
    \/ Counted(Get)
    \/ Counted(GetWrite)
    \/ Counted(CreateView)
    \/ Counted(DestroyView)
    \/ Counted(GetEntities)

Spec == Init /\ [][Next]_vars

\* the entity allocator alone: every sequence of create_entity and
\* destroy_entity calls, of any length
NextAlloc ==
    \/ CreateEntity /\ UNCHANGED calls
    \/ DestroyEntity /\ UNCHANGED calls

SpecAlloc == Init /\ [][NextAlloc]_vars

\* call sequences in which every destroy_entity returns: create_entity and
\* destroy_entity calls in any number, and at most MaxCalls calls of
\* assign<T>(e, T{}) and create_view<T>() for one component type T
NextReturning ==
    \/ CreateEntity /\ UNCHANGED calls
    \/ DestroyEntity /\ last'.status = "ok" /\ UNCHANGED calls
    \/ Counted(AssignOf({1}, {0}))
    \/ Counted(CreateViewOf({{1}}))

SpecReturning == Init /\ [][NextReturning]_vars

(***************************************************************************)
(* Two registries: calls on either of them, and second_registry            *)
(* constructed or assigned from registry.  A call with undefined behaviour *)
(* (an access through a null or wrongly typed array pointer) ends the run: *)
(* nothing is modelled after it.                                           *)
(***************************************************************************)
\* ecs::Registry registry, second_registry; and nothing on the heap
InitTwo ==
    /\ reg = Registry
    /\ last = Call("Registry", Void, 0, 0, Void, NoTypes, Return(Registry, Void))
    /\ live = {}
    /\ fresh = 0
    /\ shadow = << >>
    /\ calls = 0
    /\ view_types = << >>
    /\ destroyed = {}
    /\ objs = [x \in Names |-> [obj |-> NewRegistry, live |-> {}, built |-> "Registry()"]]
    /\ heap = [a \in Addrs |-> Null]

Value(x) == Deref(objs[x].obj, heap)

\* the method called on x left outcome out
Called(x, call, out, newlive) ==
    LET stored == Store(objs[x].obj, out.reg, heap) IN
    /\ objs' = [objs EXCEPT ![x].obj = stored.obj, ![x].live = newlive]
    /\ heap' = stored.heap
    /\ last' = [on |-> x] @@ call
    /\ UNCHANGED <<reg, live, fresh, shadow, view_types, destroyed>>

OnCreateEntity ==
    \E x \in Names :
      LET out == create_entity(Value(x)) IN
      Called(x, Call("create_entity", Void, 0, 0, Void, NoTypes, out), out,
             IF out.status = "ok" THEN objs[x].live \cup {out.ret} ELSE objs[x].live)

OnDestroyEntity ==
    \E x \in Names : \E entity \in objs[x].live :
      LET out == destroy_entity(Value(x), entity) IN
      Called(x, Call("destroy_entity", entity, 0, 0, Void, NoTypes, out), out,
             objs[x].live \ {entity})

OnAssignOf(Ts, Data) ==
    \E x \in Names : \E entity \in objs[x].live, T \in Ts, data \in Data :
      LET out == assign(Value(x), T, entity, data) IN
      Called(x, Call("assign", entity, T, data, Void, NoTypes, out), out, objs[x].live)

OnAssign == OnAssignOf(PairTypes, PairValues)

OnRemoveOf(Ts) ==
    \E x \in Names : \E entity \in objs[x].live, T \in Ts :
      LET out == remove(Value(x), T, entity) IN
      Called(x, Call("remove", entity, T, 0, Void, NoTypes, out), out, objs[x].live)

OnRemove == OnRemoveOf(PairTypes)

OnGet ==
    \E x \in Names : \E entity \in objs[x].live, T \in PairTypes :
      LET out == get(Value(x), T, entity) IN
      Called(x, Call("get", entity, T, 0, Void, NoTypes, out), out, objs[x].live)

OnGetWrite ==
    \E x \in Names : \E entity \in objs[x].live, T \in PairTypes, data \in PairValues :
      LET out == get_write(Value(x), T, entity, data) IN
      /\ out.status = "ok"
      /\ Called(x, Call("get_write", entity, T, data, Void, NoTypes, out), out, objs[x].live)

OnCreateView ==
    \E x \in Names : \E Ts \in {{T} : T \in PairTypes} :
      LET out == create_view(Value(x), Ts) IN
      Called(x, Call("create_view", Void, 0, 0, Void, Ts, out), out, objs[x].live)

\* a constructor or an assignment gave second_registry the members obj
Built(how, obj, h, newlive) ==
    /\ objs' = [objs EXCEPT !["second_registry"] =
                   [obj |-> obj, live |-> newlive, built |-> how]]
    /\ heap' = h
    /\ last' = [on |-> "second_registry"]
                 @@ Call(how, Void, 0, 0, Void, NoTypes, Return(Registry, Void))
    /\ UNCHANGED <<reg, live, fresh, shadow, view_types, destroyed>>

\* auto second_registry = registry; in a new scope: the second_registry there was
\* is gone
CopyConstruct ==
    LET made == Registry_copy(objs["registry"].obj,
                              Registry_destroy(objs["second_registry"].obj, heap))
    IN Built("copy constructor", made.obj, made.heap, objs["registry"].live)

\* second_registry = registry;
CopyAssign ==
    LET made == copy_assign(objs["second_registry"].obj, objs["registry"].obj, heap)
    IN Built("copy assignment", made.obj, made.heap, objs["registry"].live)

\* auto second_registry = std::move(registry); in a new scope
MoveConstruct ==
    LET made == Registry_move(objs["registry"].obj,
                              Registry_destroy(objs["second_registry"].obj, heap))
    IN Built("move constructor", made.obj, made.heap, objs["registry"].live)

\* second_registry = std::move(registry);
MoveAssign ==
    LET swapped == move_assign(objs["second_registry"].obj, objs["registry"].obj) IN
    /\ objs' = [objs EXCEPT
                  !["second_registry"] = [obj |-> swapped.this,
                                          live |-> objs["registry"].live,
                                          built |-> "move assignment"],
                  !["registry"] = [obj |-> swapped.other,
                                   live |-> objs["second_registry"].live,
                                   built |-> "moved from"]]
    /\ last' = [on |-> "second_registry"]
                 @@ Call("move assignment", Void, 0, 0, Void, NoTypes, Return(Registry, Void))
    /\ UNCHANGED <<heap, reg, live, fresh, shadow, view_types, destroyed>>

\* one more call while the run has not ended
Running(call) == last.status # "ub" /\ Counted(call)

\* two registries, the second one copied from the first: every sequence of at
\* most MaxCalls calls, copy constructions and copy assignments
NextCopy ==
    \/ Running(OnCreateEntity)
    \/ Running(OnDestroyEntity)
    \/ Running(OnAssign)
    \/ Running(OnRemove)
    \/ Running(OnGetWrite)
    \/ Running(OnCreateView)
    \/ Running(CopyConstruct)
    \/ Running(CopyAssign)

SpecCopy == InitTwo /\ [][NextCopy]_vars

\* a copy-constructed registry in use: create_entity calls in any number, and
\* at most MaxCalls copy constructions and calls of assign<T>(e, T{}) and
\* remove<T>(e) for one component type T
NextCopied ==
    \/ OnCreateEntity /\ UNCHANGED calls
    \/ Running(OnAssignOf({1}, {0}))
    \/ Running(OnRemoveOf({1}))
    \/ Running(CopyConstruct)

SpecCopied == InitTwo /\ [][NextCopied]_vars

\* two registries, the second one moved from the first: every sequence of at
\* most MaxCalls calls, move constructions and move assignments
NextMove ==
    \/ Running(OnCreateEntity)
    \/ Running(OnAssign)
    \/ Running(OnGet)
    \/ Running(MoveConstruct)
    \/ Running(MoveAssign)

SpecMove == InitTwo /\ [][NextMove]_vars

(***************************************************************************)
(* What the claims speak of.                                               *)
(***************************************************************************)
\* the call threw an exception
Failed(call) == call.status \in {"runtime_error", "out_of_range"}

\* the handles of the registered views
Views == DOMAIN reg.m_view_signatures

\* get_entities(view) of a registered view
Members(view) == get_entities(reg, view).ret

\* signature(e)
Signature(entity) == reg.m_entity_signatures[entity]

\* T is bound to a bit and r's signature of entity has that bit set
HasComponent(r, entity, T) ==
    /\ has_component_bit(r, T)
    /\ get_component_bit(r, T) \in r.m_entity_signatures[entity]

\* C1: right after an assign<T>(e, v) or a remove<T>(e) that returned, e is in
\* get_entities(V) exactly when signature(e) is a superset of signature(V), for
\* every registered view V.
C1_ViewsFollowSignature ==
    (last.op \in {"assign", "remove"} /\ last.status = "ok") =>
        \A view \in Views :
            (last.entity \in Members(view)) <=>
                (reg.m_view_signatures[view] \subseteq Signature(last.entity))

\* an assign has just put its entity into a registered view that already had a member
C1_Witness ==
    /\ last.op = "assign"
    /\ last.status = "ok"
    /\ \E view \in Views :
          /\ last.entity \in Members(view)
          /\ Cardinality(Members(view)) >= 2

\* C2: after destroy_entity(e) returned for a live entity e, e is a member of no
\* registered view.
C2_DestroyedInNoView ==
    (last.op = "destroy_entity" /\ last.status = "ok") =>
        \A view \in Views : last.entity \notin Members(view)

\* C3: when create_view returns a newly registered view, its members are exactly
\* the live entities whose signature is a superset of the view's signature.
C3_NewViewMembers ==
    (last.op = "create_view" /\ last.status = "ok" /\ last.ret \notin last.views_before) =>
        Members(last.ret) =
            {entity \in live : reg.m_view_signatures[last.ret] \subseteq Signature(entity)}

\* C4: create_view is interned by signature.  When a view with the signature asked
\* for is registered, create_view returns that view's handle and leaves the
\* registry (its views and their members included) as it was; and a create_view
\* with the component types of the create_view just before it returns the same
\* handle.
C4_ViewInterned ==
    [][ /\ last'.op = "create_view" =>
             \A view \in Views :
                ( /\ set_component_bits(reg, last'.types).status = "ok"
                  /\ reg.m_view_signatures[view] = set_component_bits(reg, last'.types).ret )
                => (last'.status = "ok" /\ last'.ret = view /\ reg' = reg)
        /\ ( /\ last.op = "create_view"
             /\ last.status = "ok"
             /\ last'.op = "create_view"
             /\ last'.types = last.types )
           => (last'.status = "ok" /\ last'.ret = last.ret)
      ]_vars

\* a create_view has just returned the handle of a view registered before it
C4_Witness ==
    /\ last.op = "create_view"
    /\ last.status = "ok"
    /\ last.ret \in last.views_before
    /\ Members(last.ret) # {}

\* C5: the value the caller last stored for e and T, by assign<T>(e, v), is what
\* get<T>(e) returns, whatever was called since, as long as T was not removed
\* from e and e was not destroyed.
C5_StoreLoad ==
    \A entity \in EntityIds : \A T \in Types :
        shadow[entity][T] # Void =>
            /\ get(reg, T, entity).status = "ok"
            /\ get(reg, T, entity).ret = shadow[entity][T]

\* an entity holds a 1 stored for T, and the call just made removed T from
\* another entity
C5_Witness ==
    /\ last.op = "remove"
    /\ last.status = "ok"
    /\ \E entity \in live :
          /\ entity # last.entity
          /\ shadow[entity][last.type] = 1

\* C6: get<T>(e) fails whenever e's signature does not have T's bit set.
C6_GetFailsWithoutBit ==
    (last.op = "get" /\ ~HasComponent(reg, last.entity, last.type)) =>
        Failed(last)

\* C7: remove<T>(e) on an entity e whose signature lacks T, T bound or not, fails
\* and leaves the whole registry as it was.
C7_RemoveAbsentFails ==
    [][ \A entity \in EntityIds : \A T \in Types :
            ( /\ last'.op = "remove"
              /\ last'.entity = entity
              /\ last'.type = T
              /\ ~HasComponent(reg, entity, T) )
            => (Failed(last') /\ reg' = reg)
      ]_vars

\* a remove<T>(e) has just failed where T is bound, held by another entity, and
\* a view is registered
C7_Witness ==
    /\ last.op = "remove"
    /\ Failed(last)
    /\ has_component_bit(reg, last.type)
    /\ Views # {}

\* no id occurs twice in a sequence
NoRepeat(seq) == \A j, k \in 1 .. Len(seq) : seq[j] = seq[k] => j = k

\* C8: the ids the live-list traversal visits are the ids create_entity returned
\* that were not since destroyed, each visited once.  Stated of the registries in
\* which entity 0 is live: the traversal starts at index 0 whatever slot 0 holds.
C8_LiveListIsLive ==
    0 \in live =>
        /\ Visited(reg) = live
        /\ NoRepeat(LiveList(reg, 0, MAX_ENTITY_COUNT + 1))

\* C9: create_entity fails only when all MAX_ENTITY_COUNT slots are live.
C9_FailsOnlyWhenFull ==
    (last.op = "create_entity" /\ last.status # "ok") =>
        Cardinality(live) = MAX_ENTITY_COUNT

\* C10: create_entity never returns an id that is live, and while no
\* destroy_entity call was made the k-th create_entity returns k - 1.
C10_FreshId ==
    [][ (last'.op = "create_entity" /\ last'.status = "ok") =>
            /\ last'.ret \notin live
            /\ (fresh >= 0 => last'.ret = fresh)
      ]_vars

\* create_entity has just returned an id, after some destroy_entity call and
\* with another entity live
C10_Witness ==
    /\ last.op = "create_entity"
    /\ last.status = "ok"
    /\ fresh = -1
    /\ Cardinality(live) >= 2

\* C11: destroy_entity(e) returns normally for every live entity e, entity 0, the
\* last entity and an entity above every free slot included, and e's signature is
\* empty afterwards.
C11_DestroyReturns ==
    last.op = "destroy_entity" =>
        /\ last.status = "ok"
        /\ Signature(last.entity) = {}

\* C12: a call that throws leaves the registry as it was before the call.
C12_ErrorAtomicity ==
    [][ Failed(last') => reg' = reg ]_vars

\* C15: destroy_view(h) and get_entities(h) fail for every handle h that is not a
\* registered view; once destroy_view(h) returned, every later destroy_view(h)
\* and get_entities(h) fails, and create_view never returns h again.
C15_StaleHandleFails ==
    [][ /\ ( /\ last'.op \in {"destroy_view", "get_entities"}
             /\ (last'.view \notin Views \/ last'.view \in destroyed) )
           => Failed(last')
        /\ (last'.op = "create_view" /\ last'.status = "ok")
           => last'.ret \notin destroyed
      ]_vars

\* get_entities has just failed on a handle that destroy_view returned for
C15_Witness ==
    /\ last.op = "get_entities"
    /\ Failed(last)
    /\ last.view \in destroyed

\* C16: when a remove<T>(e) that returned leaves no entity whose signature has
\* T's bit set, T is bound to no bit any more: get<T> and create_view<T> fail.
C16_LastHolderReleases ==
    ( /\ last.op = "remove"
      /\ last.status = "ok"
      /\ \A entity \in EntityIds : ~HasComponent(reg, entity, last.type) )
    => /\ ~has_component_bit(reg, last.type)
       /\ Failed(get(reg, last.type, last.entity))
       /\ Failed(create_view(reg, {last.type}))

\* the number of entities whose signature has the bit set
Holders(r, bit) == Cardinality({entity \in EntityIds : bit \in r.m_entity_signatures[entity]})

\* C17: assign<T>(e, v) on an entity that holds T stores v and leaves the
\* reference count of T's bit as it was; and after every call the reference
\* count of each bound bit is the number of entities whose signature has the bit.
C17_CountIsHolders ==
    [][ /\ ( /\ last'.op = "assign"
             /\ last'.status = "ok"
             /\ HasComponent(reg, last'.entity, last'.type) )
           => /\ get(reg', last'.type, last'.entity).ret = last'.data
              /\ reg'.m_components_assigned[get_component_bit(reg, last'.type)]
                    = reg.m_components_assigned[get_component_bit(reg, last'.type)]
        /\ \A bit \in Bits :
              reg'.m_bit_to_component[bit] # 0 =>
                  reg'.m_components_assigned[bit] = Holders(reg', bit)
      ]_vars

\* C19: every live member of a registered view holds every component type the
\* view was created over, and get<T> of it returns, whatever was removed,
\* released and bound again since the view was created.
C19_ViewMembersHoldTypes ==
    \A view \in Views : \A entity \in Members(view) \cap live :
        \A T \in view_types[view] :
            /\ HasComponent(reg, entity, T)
            /\ get(reg, T, entity).status = "ok"

\* the public methods called on one of two registries
Methods == {"create_entity", "destroy_entity", "assign", "remove", "get", "get_write",
            "create_view"}

\* the other one of the two registries
Other(x) == CHOOSE y \in Names : y # x

\* the component values, signatures and view memberships of a registry value
Observed(r) ==
    [values |-> r.m_component_arrays,
     signatures |-> r.m_entity_signatures,
     members |-> r.m_view_entities]

\* C13: once second_registry was copy-constructed or copy-assigned from registry,
\* a call of a method on either of the two (a write through get<T>(e), assign,
\* remove, create_entity, destroy_entity) leaves every component value, signature
\* and view membership of the other one as it was.
C13_CopyIsolated ==
    [][ ( /\ objs["second_registry"].built \in {"copy constructor", "copy assignment"}
          /\ last'.op \in Methods )
        => Observed(Deref(objs'[Other(last'.on)].obj, heap'))
              = Observed(Value(Other(last'.on)))
      ]_vars

\* a write through get<T>(e) of the copy-constructed second_registry has just
\* stored a value that differs from the one registry holds for e and T
C13_Witness ==
    /\ last.op = "get_write"
    /\ last.on = "second_registry"
    /\ objs["second_registry"].built = "copy constructor"
    /\ HasComponent(Value("registry"), last.entity, last.type)
    /\ get(Value("registry"), last.type, last.entity).ret # last.data
    /\ get(Value("second_registry"), last.type, last.entity).ret = last.data

\* C14: a move construction or move assignment of second_registry from registry
\* gives second_registry the whole state registry had (entities, signatures,
\* views, bit bindings, reference counts, component arrays), so get<T>(e) of
\* second_registry returns what get<T>(e) of registry returned before the move,
\* for every entity e that held T.
C14_MoveTransfers ==
    [][ last'.op \in {"move constructor", "move assignment"} =>
          /\ Deref(objs'["second_registry"].obj, heap') = Value("registry")
          /\ \A entity \in EntityIds : \A T \in PairTypes :
                HasComponent(Value("registry"), entity, T) =>
                    LET got == get(Deref(objs'["second_registry"].obj, heap'), T, entity)
                    IN /\ got.status = "ok"
                       /\ got.ret = get(Value("registry"), T, entity).ret
      ]_vars

\* C18: in each registry, copies included, every bit set in an entity's
\* signature is bound to a component type and has its storage array.
C18_NoReleasedBitHeld ==
    \A x \in Names : \A entity \in EntityIds :
        \A bit \in Value(x).m_entity_signatures[entity] :
            /\ Value(x).m_bit_to_component[bit] # 0
            /\ Value(x).m_component_arrays[bit] # Null

\* the calls of public methods with the entities ids, on a registry value r
CallsOn(r, ids) ==
    [op : {"create_entity"}, entity : {Void}, type : {0}, data : {0}, view : {Void}]
    \cup [op : {"destroy_entity"}, entity : ids, type : {0}, data : {0}, view : {Void}]
    \cup [op : {"assign"}, entity : ids, type : PairTypes, data : Values, view : {Void}]
    \cup [op : {"remove", "get", "create_view"}, entity : ids, type : PairTypes,
          data : {0}, view : {Void}]
    \cup [op : {"get_entities", "destroy_view"}, entity : {Void}, type : {0}, data : {0},
          view : 0 .. r.m_view_count]

\* the outcome of the call c on the registry value r
Do(r, c) ==
    CASE c.op = "create_entity" -> create_entity(r)
      [] c.op = "destroy_entity" -> destroy_entity(r, c.entity)
      [] c.op = "assign" -> assign(r, c.type, c.entity, c.data)
      [] c.op = "remove" -> remove(r, c.type, c.entity)
      [] c.op = "get" -> get(r, c.type, c.entity)
      [] c.op = "create_view" -> create_view(r, {c.type})
      [] c.op = "get_entities" -> get_entities(r, c.view)
      [] c.op = "destroy_view" -> destroy_view(r, c.view)

\* two outcomes the caller cannot tell apart: both returned the same value, or
\* both threw the same exception
Same(a, b) == a.status = b.status /\ (a.status = "ok" => a.ret = b.ret)

\* C20: right after second_registry was copy-constructed or copy-assigned from
\* registry, the same calls made on the two give the same results at every
\* step: stated for every sequence of two calls.
C20_CopyEquivalent ==
    last.op \in {"copy constructor", "copy assignment"} =>
        LET a == Value("registry")
            b == Value("second_registry")
            ids == objs["registry"].live
        IN \A c1 \in CallsOn(a, ids) :
              /\ Same(Do(a, c1), Do(b, c1))
              /\ \A c2 \in CallsOn(Do(a, c1).reg, ids) :
                    Same(Do(Do(a, c1).reg, c2), Do(Do(b, c1).reg, c2))

=============================================================================
